---------------------------- MODULE Spec2Model ----------------------------
(***************************************************************************)
(* openrelik-api-client: the token-refreshing HTTP session                 *)
(* (TokenRefreshSession), the generic client on top of it (APIClient, with *)
(* its chunked upload_file) and the FoldersAPI / WorkflowsAPI resource     *)
(* clients.                                                                *)
(*                                                                         *)
(* The remote service is the environment: every request put on the wire is *)
(* answered by a status and a JSON body of the service's choosing, or by a *)
(* transport error.  A thread's control state is the operation it is in    *)
(* (op), and the stack of active TokenRefreshSession.request calls (stack):*)
(* the refresh GET of _refresh_token is issued with self.get, which is     *)
(* requests.Session.get and dispatches to self.request, so a refresh is a  *)
(* nested call of request on the same session.                             *)
(***************************************************************************)
EXTENDS Integers, Sequences, FiniteSets, TLC

VARIABLES
    api_key,    \* the api_key argument the session was constructed with
    headers,    \* session.headers: the two credential headers
    threads,    \* the caller threads that use the session
    op,         \* op[t]: the client operation thread t is executing
    stack,      \* stack[t]: active TokenRefreshSession.request calls, outermost first
    lastDone,   \* lastDone[t]: the request call that completed last in the current operation
    result,     \* result[t]: how the last client operation of t ended
    granted     \* the new_access_token of the last refresh response accepted; "never" before

vars == <<api_key, headers, threads, op, stack, lastDone, result, granted>>

---------------------------------------------------------------------------
(* Bounds of the model *)

\* Nesting of request calls (request -> _refresh_token -> get -> request ...)
\* that is explored; a first response of 401 is not generated at this depth.
MaxDepth == 3
MaxSharedDepth == 2

\* Caller threads the model knows of.
MaxThreads == 2

Threads == 1..MaxThreads

---------------------------------------------------------------------------
(* Python values *)

\* None, or an int.
None == [none |-> TRUE, n |-> 0]
PyInt(i) == [none |-> FALSE, n |-> i]

\* Mutant: only None counts as no value (`is not None`).
Truthy_notNone(v) == ~v.none

\* bool(v) of an Optional[int]
Truthy(v) == ~v.none /\ v.n # 0

\* str(v) of an Optional[int]
PyStr(v) == IF v.none THEN "None" ELSE ToString(v.n)

\* bool(s) of an Optional[str]; "None" stands for None
TruthyStr(s) == s \notin {"None", ""}

\* math.ceil(a / b) for a >= 0, b > 0
Ceil(a, b) == (a + b - 1) \div b

Min(a, b) == IF a <= b THEN a ELSE b

---------------------------------------------------------------------------
(* The wire: requests, responses *)

api_server_url == "https://srv"

\* _refresh_token, line 175
refresh_url == api_server_url \o "/auth/refresh"

\* Values of a credential header in session.headers: "absent" (no such key),
\* "null" (key present with value None), or a token.
Tokens == {"t1", "t2"}
ApiKeys == {"None", "", "key"}

\* Request options (**kwargs of request), as the callers of this repository
\* build them.
\* params is the dict of query parameters; NoParams stands for params=None.
NoParams ==
    [resumableChunkNumber |-> "", resumableTotalChunks |-> "",
     resumableIdentifier |-> "", resumableFilename |-> "", folder_id |-> ""]

NoOpts == [data |-> "None", json |-> "None", params |-> NoParams, headers |-> "None"]

\* requests merges session.headers into the prepared request and drops a
\* header whose value is None.
Attached(h) == IF h = "null" THEN "absent" ELSE h

\* The message super().request(method, url, **kwargs) puts on the wire.
WireMsg(method, url, opts) ==
    [method  |-> method, url |-> url, opts |-> opts,
     refresh |-> Attached(headers.refresh),
     access  |-> Attached(headers.access)]

\* Statuses the service answers with.  The refresh endpoint is explored
\* with one status of each kind the code tells apart: success, 401 and an
\* error status.
\* Where two threads share the session, the other endpoints answer 200 or
\* 401 (the statuses the session tells apart).
Statuses(url) ==
    IF url = refresh_url THEN {200, 401, 500}
    ELSE IF Cardinality(threads) > 1 THEN {200, 401}
    ELSE {200, 201, 204, 401, 404, 500}

\* response.raise_for_status() raises HTTPError (a RequestException)
RaisesForStatus(r) == r.status >= 400 /\ r.status < 600

\* JSON bodies the service answers with, as the code reads them:
\* response.json().get("id") and response.json().get("new_access_token"); a
\* missing key reads as None.  No operation reads the body of an error
\* response, which is kept empty.
EmptyBody == [id |-> None, tok |-> "null"]

Bodies(url, status) ==
    IF status >= 400 THEN {EmptyBody}
    ELSE IF url = refresh_url
    THEN {[id |-> None, tok |-> k] : k \in Tokens \cup {"null"}}
    ELSE {[id |-> i, tok |-> "null"] : i \in {None, PyInt(77)}}

Responses(url) ==
    UNION {{[status |-> s, body |-> b] : b \in Bodies(url, s)} : s \in Statuses(url)}

NoResp == [status |-> 0, body |-> EmptyBody]

---------------------------------------------------------------------------
(* TokenRefreshSession *)

\* TokenRefreshSession.__init__
SessionInit(key) ==
    [refresh |-> IF TruthyStr(key) THEN key ELSE "absent",
     access  |-> "absent"]

\* An activation of TokenRefreshSession.request(method, url, **kwargs).
\*   pc        "send": about to call super().request; "wait": request on the
\*             wire; "refresh": inside self._refresh_token(); "ret": about to
\*             return resp; "raise": about to raise exc
\*   log       the messages this call put on the wire
\*   got       the responses super().request returned to it
\*   refreshes the calls of self._refresh_token() this call made
\*   rt        how its _refresh_token() ended: "none", "true", "false", "raised"
\*   entry     session.headers when the call began, exit: when it ended
Frame(method, url, opts) ==
    [method |-> method, url |-> url, opts |-> opts, pc |-> "send",
     log |-> <<>>, got |-> <<>>, resp |-> NoResp, refreshes |-> 0,
     rt |-> "none", exc |-> "none", entry |-> headers, exit |-> headers]

NoFrame ==
    [method |-> "none", url |-> "none", opts |-> NoOpts, pc |-> "none",
     log |-> <<>>, got |-> <<>>, resp |-> NoResp, refreshes |-> 0,
     rt |-> "none", exc |-> "none",
     entry |-> [refresh |-> "absent", access |-> "absent"],
     exit |-> [refresh |-> "absent", access |-> "absent"]]

Depth(t) == Len(stack[t])
Top(t) == stack[t][Len(stack[t])]
Below(t) == SubSeq(stack[t], 1, Len(stack[t]) - 1)
SetTop(t, f) == [stack EXCEPT ![t] = Append(Below(t), f)]

\* requests.Session.get/post/put/patch/delete(url, **kwargs): each is
\* self.request(<VERB>, url, **kwargs), which is the override below.
SessionVerb(verb, url, opts) == Frame(verb, url, opts)

\* Mutant: the retry is sent without the caller's options.
ResendArgs_noOpts(f) == WireMsg(f.method, f.url, NoOpts)

\* Mutant: the retry goes out with the headers prepared for the first attempt.
ResendArgs_stale(f) ==
    [WireMsg(f.method, f.url, f.opts) EXCEPT !.access = Attached(f.entry.access)]

\* Mutant: the retry is sent without the query parameters.
ResendArgs_noParams(f) ==
    WireMsg(f.method, f.url, [f.opts EXCEPT !.params = NoParams])

\* request, line 167: the arguments of the retry.
ResendArgs(f) == WireMsg(f.method, f.url, f.opts)

Transmit(t) ==
    /\ Depth(t) > 0
    /\ Top(t).pc = "send"
    /\ LET f == Top(t)
           m == IF Len(f.log) = 0 THEN WireMsg(f.method, f.url, f.opts)
                                  ELSE ResendArgs(f)
       IN stack' = SetTop(t, [f EXCEPT !.pc = "wait", !.log = Append(@, m)])
    /\ UNCHANGED <<api_key, headers, threads, op, lastDone, result, granted>>

\* Mutant: only GET requests are intercepted.
AfterFirst_getOnly(f, r) ==
    IF r.status = 401 /\ f.method = "GET"
    THEN <<[f EXCEPT !.resp = r, !.pc = "refresh", !.refreshes = @ + 1],
           Frame("GET", refresh_url, NoOpts)>>
    ELSE <<[f EXCEPT !.resp = r, !.pc = "ret"]>>

\* Mutant: every client error status starts a refresh.
AfterFirst_any4xx(f, r) ==
    IF r.status >= 400 /\ r.status < 500
    THEN <<[f EXCEPT !.resp = r, !.pc = "refresh", !.refreshes = @ + 1],
           Frame("GET", refresh_url, NoOpts)>>
    ELSE <<[f EXCEPT !.resp = r, !.pc = "ret"]>>

\* request, lines 164-171: what the call does with the first response r.
\* A 401 calls self._refresh_token(), whose first statement is
\* self.get(refresh_url): a nested request.
AfterFirst(f, r) ==
    IF r.status = 401
    THEN <<[f EXCEPT !.resp = r, !.pc = "refresh", !.refreshes = @ + 1],
           SessionVerb("GET", refresh_url, NoOpts)>>
    ELSE <<[f EXCEPT !.resp = r, !.pc = "ret"]>>

\* Mutant: the response to the retry is checked for 401 again.
AfterRetry_again(f, r) == AfterFirst(f, r)

\* request, lines 167-171: the response to the retry is returned.
AfterRetry(f, r) == <<[f EXCEPT !.resp = r, !.pc = "ret"]>>

\* The nesting of request calls explored: MaxDepth for a single caller,
\* MaxSharedDepth where two threads share the session.
DepthBound == IF Cardinality(threads) > 1 THEN MaxSharedDepth ELSE MaxDepth

\* super().request returns the service's response r.
Receive(t) ==
    /\ Depth(t) > 0
    /\ Top(t).pc = "wait"
    /\ \E r \in Responses(Top(t).url) :
          LET f == [Top(t) EXCEPT !.got = Append(@, r)]
              first == Len(f.log) = 1
          IN /\ (first /\ r.status = 401) => Depth(t) < DepthBound
             /\ stack' = [stack EXCEPT ![t] =
                    Below(t) \o (IF first THEN AfterFirst(f, r) ELSE AfterRetry(f, r))]
    /\ UNCHANGED <<api_key, headers, threads, op, lastDone, result, granted>>

\* super().request raises a RequestException (connection error, timeout):
\* request has no handler, the exception leaves the call.
TransportError(t) ==
    /\ Depth(t) > 0
    /\ Top(t).pc = "wait"
    /\ stack' = SetTop(t, [Top(t) EXCEPT !.pc = "raise", !.exc = "RequestException"])
    /\ UNCHANGED <<api_key, headers, threads, op, lastDone, result, granted>>

\* What is recorded of a completed call.
Done(f, how) == [f EXCEPT !.pc = how, !.exit = headers]

\* _refresh_token, lines 177-185, from the response r of self.get:
\* the session headers after it and the caller's frame after `if
\* self._refresh_token()` (lines 165-169).
\* Mutants: the new token is not stored; it is stored under the refresh header.
RefreshStore_notStored(h, r) == h
RefreshStore_asRefresh(h, r) == [h EXCEPT !.refresh = r.body.tok]

RefreshStore(h, r) == [h EXCEPT !.access = r.body.tok]

\* Mutant: _refresh_token falls off its end (returns None) after storing.
RefreshOk_none(p) == [p EXCEPT !.rt = "false", !.pc = "raise", !.exc = "Fatal"]

RefreshOk(p) == [p EXCEPT !.rt = "true", !.pc = "send"]

\* Mutant: a failed refresh returns the 401 response instead of raising.
RefreshFailed_returns(p) == [p EXCEPT !.rt = "false", !.pc = "ret"]

RefreshFailed(p) == [p EXCEPT !.rt = "false", !.pc = "raise", !.exc = "Fatal"]

\* An exception e leaves self.get inside _refresh_token: `except
\* RequestException` returns False, anything else leaves _refresh_token and
\* request.
RefreshRaised(p, e) ==
    IF e = "RequestException"
    THEN RefreshFailed(p)
    ELSE [p EXCEPT !.rt = "raised", !.pc = "raise", !.exc = e]

---------------------------------------------------------------------------
(* Client operations *)

\* The local variables of the operation a thread is in.  Only upload_file
\* has any beyond the request it makes:
\*   endpoint, kwargs  the arguments of APIClient.get / post / ...
\*   exists, size   the local file: file_path.exists(), stat().st_size
\*   offset         the position of fh
\*   response       the variable `response`; hasResp is `response is not None`
\*   chunkLen       len(chunk) of the chunk read last
\*   posts          the self.session.post calls made so far
Idle ==
    [kind |-> "idle", phase |-> "none", endpoint |-> "none", kwargs |-> NoOpts,
     exists |-> FALSE, size |-> 0,
     folder_id |-> None, ident |-> "none", offset |-> 0, chunkLen |-> 0,
     resumableTotalChunks |-> 0, resumableChunkNumber |-> 0,
     file_id |-> PyInt(0 - 1), response |-> NoResp, hasResp |-> FALSE, posts |-> 0]

\* Values an operation returns.
RetNone == [tag |-> "None", int |-> None, resp |-> NoResp]
RetResp(r) == [tag |-> "response", int |-> None, resp |-> r]
RetInt(v) == IF v.none THEN RetNone ELSE [tag |-> "int", int |-> v, resp |-> NoResp]
RetBool(b) == [tag |-> IF b THEN "True" ELSE "False", int |-> None, resp |-> NoResp]
RetJson(r) == [tag |-> "json", int |-> None, resp |-> r]

NoResult == [how |-> "none", val |-> RetNone, exc |-> "none", op |-> Idle]
Returned(o, v) == [how |-> "returned", val |-> v, exc |-> "none", op |-> o]
Raised(o, e) == [how |-> "raised", val |-> RetNone, exc |-> e, op |-> o]

\* APIClient.__init__, line 46, with the default api_version
api_version == "v1"

\* line 46: f"{api_server_url}/api/{api_version}"
BaseUrl(server, version) == server \o "/api/" \o version

base_url == BaseUrl(api_server_url, api_version)

Endpoints == {"/users/me/"}
KwOpts == {NoOpts, [NoOpts EXCEPT !.json = "payload"]}
Verbs == {"GET", "POST", "PUT", "PATCH", "DELETE"}

\* Mutant: the json argument is not handed on to the session.
APIClientVerb_noJson(verb, endpoint, opts) ==
    SessionVerb(verb, base_url \o endpoint, [opts EXCEPT !.json = "None"])

\* APIClient.get / post / put / patch / delete: self.session.<verb>(url, ...)
APIClientVerb(verb, endpoint, opts) == SessionVerb(verb, base_url \o endpoint, opts)

\* The operation starts with one call of a session verb.
Begin(t, o, frame) ==
    /\ op' = [op EXCEPT ![t] = o]
    /\ stack' = [stack EXCEPT ![t] = <<frame>>]
    /\ lastDone' = [lastDone EXCEPT ![t] = NoFrame]
    /\ result' = [result EXCEPT ![t] = NoResult]
    /\ UNCHANGED <<api_key, headers, threads, granted>>

\* The operation ends.
Finish(t, res) ==
    /\ op' = [op EXCEPT ![t] = Idle]
    /\ stack' = [stack EXCEPT ![t] = <<>>]
    /\ result' = [result EXCEPT ![t] = res]

IsIdle(t) == t \in threads /\ op[t].kind = "idle" /\ Depth(t) = 0

\* A caller uses the session directly: session.request(method, url, **kwargs)
CallRequest(t) ==
    /\ IsIdle(t)
    /\ \E method \in {"GET", "POST"} :
          Begin(t, [Idle EXCEPT !.kind = "request"],
                Frame(method, api_server_url \o "/some/endpoint",
                      [NoOpts EXCEPT !.data = "payload"]))

CallVerb(t) ==
    /\ IsIdle(t)
    /\ \E verb \in Verbs, e \in Endpoints, opts \in KwOpts :
          Begin(t, [Idle EXCEPT !.kind = verb, !.endpoint = e, !.kwargs = opts],
                APIClientVerb(verb, e, opts))

---------------------------------------------------------------------------
(* APIClient.upload_file *)

\* line 90
chunk_size == 1024000

\* Sizes of the local file: empty, below, at and above one chunk, and three
\* chunks.
FileSizes == {0, 1000001, 1024000, 1024001, 2500000}
FolderIds == {None, PyInt(0), PyInt(5)}
UploadIds == {"u1"}
resumableFilename == "f.bin"

\* Mutant: the chunk number is counted from 0 (incremented after the POST).
ChunkPost_fromZero(o, n) ==
    SessionVerb("POST", base_url \o "/files/upload",
        [data    |-> resumableFilename \o "[" \o ToString(o.offset - n) \o ":"
                        \o ToString(o.offset) \o "]",
         json    |-> "None",
         params  |-> [resumableChunkNumber |-> ToString(o.resumableChunkNumber - 1),
                      resumableTotalChunks |-> ToString(o.resumableTotalChunks),
                      resumableIdentifier  |-> o.ident,
                      resumableFilename    |-> resumableFilename,
                      folder_id            |-> PyStr(o.folder_id)],
         headers |-> "Content-Type: multipart/form-data; boundary=b"
                        \o ToString(o.resumableChunkNumber)])

\* Mutant: every chunk gets an upload identifier of its own.
ChunkPost_freshId(o, n) ==
    SessionVerb("POST", base_url \o "/files/upload",
        [data    |-> resumableFilename \o "[" \o ToString(o.offset - n) \o ":"
                        \o ToString(o.offset) \o "]",
         json    |-> "None",
         params  |-> [resumableChunkNumber |-> ToString(o.resumableChunkNumber),
                      resumableTotalChunks |-> ToString(o.resumableTotalChunks),
                      resumableIdentifier  |-> o.ident \o "-"
                                                 \o ToString(o.resumableChunkNumber),
                      resumableFilename    |-> resumableFilename,
                      folder_id            |-> PyStr(o.folder_id)],
         headers |-> "Content-Type: multipart/form-data; boundary=b"
                        \o ToString(o.resumableChunkNumber)])

\* Each chunk has a MultipartEncoder of its own (lines 116-120), whose
\* content type names a boundary made for it: b1, b2, ... here.
\* lines 109-126: the POST of the chunk fh.read(chunk_size) returned, the
\* bytes [o.offset - n, o.offset) of the file, n > 0.
ChunkPost(o, n) ==
    SessionVerb("POST", base_url \o "/files/upload",
        [data    |-> resumableFilename \o "[" \o ToString(o.offset - n) \o ":"
                        \o ToString(o.offset) \o "]",
         json    |-> "None",
         params  |-> [resumableChunkNumber |-> ToString(o.resumableChunkNumber),
                      resumableTotalChunks |-> ToString(o.resumableTotalChunks),
                      resumableIdentifier  |-> o.ident,
                      resumableFilename    |-> resumableFilename,
                      folder_id            |-> PyStr(o.folder_id)],
         headers |-> "Content-Type: multipart/form-data; boundary=b"
                        \o ToString(o.resumableChunkNumber)])

\* bool(response) of `if response and ...` (line 127): None is false, and a
\* requests.Response is true when its status is no error status.
ResponseTruthy(o) == o.hasResp /\ ~RaisesForStatus(o.response)

\* Mutant: the id is taken from a response of status 200.
UploadResult_on200(o) ==
    IF ResponseTruthy(o) /\ o.response.status = 200
    THEN o.response.body.id
    ELSE o.file_id

\* lines 127-129
UploadResult(o) ==
    IF ResponseTruthy(o) /\ o.response.status = 201
    THEN o.response.body.id
    ELSE o.file_id

\* Mutant: the file is read a MiB at a time.
Read_MiB(o) == Min(1048576, o.size - o.offset)

\* len(fh.read(chunk_size)) at position o.offset
Read(o) == Min(chunk_size, o.size - o.offset)

\* Mutant: the chunks are posted two at a time, the second without waiting
\* for the response to the first.
ReadNext_ahead(t, o) ==
    LET n == Read(o)
        o2 == [o EXCEPT !.phase = "chunk", !.offset = @ + n, !.chunkLen = n,
                        !.resumableChunkNumber = @ + 1, !.posts = @ + 1]
        n3 == Read(o2)
        o3 == [o2 EXCEPT !.offset = @ + n3, !.chunkLen = n3,
                         !.resumableChunkNumber = @ + 1, !.posts = @ + 1]
    IN IF n > 0
       THEN /\ op' = [op EXCEPT ![t] = IF n3 > 0 THEN o3 ELSE o2]
            /\ stack' = [stack EXCEPT ![t] =
                  IF n3 > 0 THEN <<ChunkPost(o2, n), ChunkPost(o3, n3)>>
                            ELSE <<ChunkPost(o2, n)>>]
            /\ result' = [result EXCEPT ![t] = NoResult]
       ELSE Finish(t, Returned(o, RetInt(UploadResult(o))))

\* line 107: `while chunk := fh.read(chunk_size)` with o the state before
\* the read.  Either the next chunk is posted or the loop is over and the
\* operation returns.
ReadNext(t, o) ==
    LET n == Read(o) IN
    IF n > 0
    THEN LET o2 == [o EXCEPT !.phase = "chunk", !.offset = @ + n, !.chunkLen = n,
                             !.resumableChunkNumber = @ + 1, !.posts = @ + 1]
         IN /\ op' = [op EXCEPT ![t] = o2]
            /\ stack' = [stack EXCEPT ![t] = <<ChunkPost(o2, n)>>]
            /\ result' = [result EXCEPT ![t] = NoResult]
    ELSE Finish(t, Returned(o, RetInt(UploadResult(o))))

\* lines 104-106
EnterLoop(t, o) ==
    ReadNext(t, [o EXCEPT !.phase = "chunk",
                          !.resumableTotalChunks = Ceil(o.size, chunk_size)])

\* Mutant: the existence of the file is left to open(), after the folder check.
FileMissing_unchecked(exists) == FALSE

\* line 96: `if not file_path.exists()`
FileMissing(exists) == ~exists

\* upload_file(file_path, folder_id), lines 87-102, for a local file that
\* exists or not, of the given size.
StartUpload(t, exists, size, fid, id) ==
    LET o == [Idle EXCEPT !.kind = "upload_file", !.exists = exists,
                          !.size = size, !.folder_id = fid, !.ident = id]
    IN /\ lastDone' = [lastDone EXCEPT ![t] = NoFrame]
       /\ IF FileMissing(exists)
          THEN Finish(t, Raised(o, "FileNotFoundError"))
          ELSE IF Truthy(fid)
          THEN /\ op' = [op EXCEPT ![t] = [o EXCEPT !.phase = "folder"]]
               /\ stack' = [stack EXCEPT ![t] =
                     <<SessionVerb("GET", base_url \o "/folders/" \o PyStr(fid), NoOpts)>>]
               /\ result' = [result EXCEPT ![t] = NoResult]
          ELSE EnterLoop(t, o)
       /\ UNCHANGED <<api_key, headers, threads, granted>>

CallUpload(t) ==
    /\ IsIdle(t)
    /\ \E exists \in BOOLEAN, fid \in FolderIds, id \in UploadIds :
       \E size \in (IF exists THEN FileSizes ELSE {0}) :
          StartUpload(t, exists, size, fid, id)

\* Mutant: every error status of the folder check stops the upload.
FolderMissing_anyError(r) == RaisesForStatus(r)

\* Mutant: a missing folder does not stop the upload.
FolderMissing_ignored(r) == FALSE

\* line 101: `if response.status_code == 404`
FolderMissing(r) == r.status = 404

\* Mutant: a chunk response with an error status ends the upload.
UploadResume_validates(t, r) ==
    LET o == [op[t] EXCEPT !.response = r, !.hasResp = TRUE] IN
    IF o.phase = "folder"
    THEN IF FolderMissing(r)
         THEN Finish(t, Returned(o, RetInt(o.file_id)))
         ELSE EnterLoop(t, o)
    ELSE IF RaisesForStatus(r)
         THEN Finish(t, Returned(o, RetInt(o.file_id)))
         ELSE ReadNext(t, o)

\* lines 100-102 and 121: a session call of upload_file returned r.
UploadResume(t, r) ==
    LET o == [op[t] EXCEPT !.response = r, !.hasResp = TRUE] IN
    IF o.phase = "folder"
    THEN IF FolderMissing(r)
         THEN Finish(t, Returned(o, RetInt(o.file_id)))
         ELSE EnterLoop(t, o)
    ELSE ReadNext(t, o)

---------------------------------------------------------------------------
(* FoldersAPI, WorkflowsAPI *)

FolderArg == PyInt(5)
WorkflowArg == PyInt(9)

FoldersUrl(folder_id) == base_url \o "/folders/" \o PyStr(folder_id)

WorkflowUrl(folder_id, workflow_id) ==
    FoldersUrl(folder_id) \o "/workflows/" \o PyStr(workflow_id)

JsonOpts(j) == [NoOpts EXCEPT !.json = j]

\* The session call each method makes.
ResourceCall(kind) ==
    CASE kind = "create_root_folder" ->
            SessionVerb("POST", base_url \o "/folders/", JsonOpts("display_name"))
      [] kind = "create_subfolder" ->
            SessionVerb("POST", FoldersUrl(FolderArg) \o "/folders", JsonOpts("display_name"))
      [] kind = "folder_exists" ->
            SessionVerb("GET", FoldersUrl(FolderArg), NoOpts)
      [] kind = "create_workflow" ->
            SessionVerb("POST", FoldersUrl(FolderArg) \o "/workflows",
                        JsonOpts("folder_id,file_ids,template_id"))
      [] kind = "get_workflow" ->
            SessionVerb("GET", WorkflowUrl(FolderArg, WorkflowArg), NoOpts)
      [] kind = "update_workflow" ->
            SessionVerb("PATCH", WorkflowUrl(FolderArg, WorkflowArg), JsonOpts("workflow_data"))
      [] kind = "delete_workflow" ->
            SessionVerb("DELETE", WorkflowUrl(FolderArg, WorkflowArg), NoOpts)
      [] kind = "run_workflow" ->
            SessionVerb("POST", WorkflowUrl(FolderArg, WorkflowArg) \o "/run", NoOpts)

\* Mutant: folder_exists reports response.ok.
FolderExists_ok(r) == ~RaisesForStatus(r)

\* folders.py line 78: `response.status_code == 200`
FolderExists(r) == r.status = 200

\* Mutants: the folder methods take 200 for success; create_workflow takes
\* 201 for success.
ExpectedStatus_foldersOk(kind) ==
    CASE kind \in {"create_root_folder", "create_subfolder"} -> 200
      [] kind = "delete_workflow" -> 204
      [] OTHER -> 200

ExpectedStatus_workflowCreated(kind) ==
    CASE kind \in {"create_root_folder", "create_subfolder", "create_workflow"} -> 201
      [] kind = "delete_workflow" -> 204
      [] OTHER -> 200

\* The status each method compares response.status_code with (folders.py
\* lines 38 and 59, workflows.py lines 37, 54, 75, 96 and 115).
ExpectedStatus(kind) ==
    CASE kind \in {"create_root_folder", "create_subfolder"} -> 201
      [] kind = "delete_workflow" -> 204
      [] OTHER -> 200

\* What each method makes of the response r.
ResourceResult(o, r) ==
    LET ok == r.status = ExpectedStatus(o.kind) IN
    CASE o.kind \in {"create_root_folder", "create_subfolder", "create_workflow"} ->
            IF ok THEN Returned(o, RetInt(r.body.id)) ELSE Raised(o, "RuntimeError")
      [] o.kind = "folder_exists" ->
            Returned(o, RetBool(FolderExists(r)))
      [] o.kind = "get_workflow" ->
            IF ok THEN Returned(o, RetJson(r)) ELSE Returned(o, RetNone)
      [] o.kind \in {"update_workflow", "run_workflow"} ->
            IF ok THEN Returned(o, RetJson(r)) ELSE Raised(o, "RuntimeError")
      [] o.kind = "delete_workflow" ->
            Returned(o, RetBool(ok))

FolderKinds == {"create_root_folder", "create_subfolder", "folder_exists"}
WorkflowKinds == {"create_workflow", "get_workflow", "update_workflow",
                  "delete_workflow", "run_workflow"}

CallFolders(t) ==
    /\ IsIdle(t)
    /\ \E k \in FolderKinds : Begin(t, [Idle EXCEPT !.kind = k], ResourceCall(k))

CallWorkflows(t) ==
    /\ IsIdle(t)
    /\ \E k \in WorkflowKinds : Begin(t, [Idle EXCEPT !.kind = k], ResourceCall(k))

---------------------------------------------------------------------------

\* The outermost request call of the operation returned r.
OpResume(t, r) ==
    LET o == op[t] IN
    CASE o.kind \in Verbs \cup {"request"} -> Finish(t, Returned(o, RetResp(r)))
      [] o.kind = "upload_file" -> UploadResume(t, r)
      [] o.kind \in FolderKinds \cup WorkflowKinds -> Finish(t, ResourceResult(o, r))

\* Mutant: the operation catches the exception and returns its sentinel.
OpRaise_sentinel(t, e) == Finish(t, Returned(op[t], RetInt(op[t].file_id)))

\* The outermost request call of the operation raised e: no operation of
\* the clients has a handler.
OpRaise(t, e) == Finish(t, Raised(op[t], e))

---------------------------------------------------------------------------
(* Completion of a request call *)

\* `return response` (line 171).  The caller is the operation, or the
\* _refresh_token of the enclosing request call.
Return(t) ==
    /\ Depth(t) > 0
    /\ Top(t).pc = "ret"
    /\ LET f == Top(t) IN
       /\ lastDone' = [lastDone EXCEPT ![t] = Done(f, "returned")]
       /\ IF Depth(t) = 1
          THEN OpResume(t, f.resp) /\ UNCHANGED <<headers, granted>>
          ELSE LET p == stack[t][Depth(t) - 1]
                   rest == SubSeq(stack[t], 1, Depth(t) - 2)
               IN IF RaisesForStatus(f.resp)
                  THEN /\ stack' = [stack EXCEPT ![t] = Append(rest, RefreshFailed(p))]
                       /\ UNCHANGED <<headers, op, result, granted>>
                  ELSE /\ stack' = [stack EXCEPT ![t] = Append(rest, RefreshOk(p))]
                       /\ headers' = RefreshStore(headers, f.resp)
                       /\ granted' = f.resp.body.tok
                       /\ UNCHANGED <<op, result>>
    /\ UNCHANGED <<api_key, threads>>

\* An exception leaves the call: `raise Exception("Token refresh failed")`
\* (line 169), or one that passes through.
Unwind(t) ==
    /\ Depth(t) > 0
    /\ Top(t).pc = "raise"
    /\ LET f == Top(t) IN
       /\ lastDone' = [lastDone EXCEPT ![t] = Done(f, "raised")]
       /\ IF Depth(t) = 1
          THEN OpRaise(t, f.exc)
          ELSE LET p == stack[t][Depth(t) - 1]
                   rest == SubSeq(stack[t], 1, Depth(t) - 2)
               IN /\ stack' = [stack EXCEPT ![t] = Append(rest, RefreshRaised(p, f.exc))]
                  /\ UNCHANGED <<op, result>>
    /\ UNCHANGED <<api_key, headers, threads, granted>>

---------------------------------------------------------------------------
(* The system *)

Init ==
    /\ api_key \in ApiKeys
    /\ headers = SessionInit(api_key)
    /\ threads = {1}
    /\ op = [t \in Threads |-> Idle]
    /\ stack = [t \in Threads |-> <<>>]
    /\ lastDone = [t \in Threads |-> NoFrame]
    /\ result = [t \in Threads |-> NoResult]
    /\ granted = "never"

Next ==
    \E t \in Threads :
        \/ CallRequest(t)
        \/ CallVerb(t)
        \/ CallUpload(t)
        \/ CallFolders(t)
        \/ CallWorkflows(t)
        \/ Transmit(t)
        \/ Receive(t)
        \/ TransportError(t)
        \/ Return(t)
        \/ Unwind(t)

Spec == Init /\ [][Next]_vars

---------------------------------------------------------------------------
(* Properties of TokenRefreshSession *)

\* The request calls of thread t: the active ones and the one last completed.
Calls(t) ==
    {stack[t][i] : i \in 1..Depth(t)} \cup
    (IF lastDone[t].pc = "none" THEN {} ELSE {lastDone[t]})

First401(f) == Len(f.got) >= 1 /\ f.got[1].status = 401

SameRequest(m, f) == m.method = f.method /\ m.url = f.url /\ m.opts = f.opts

Last(q) == q[Len(q)]

\* C1: a call of request whose first response is 401 calls the refresh step
\* exactly once (never more in any call); when the refresh reported success
\* the call puts the original request on the wire exactly once more, with
\* the method, URL and options of the call, and otherwise it sends nothing
\* more.  The refresh GET is itself a call of request and is counted as a
\* call of its own.
C1_RefreshOnceRetryOnce ==
    \A t \in Threads : \A f \in Calls(t) :
        /\ f.refreshes <= 1
        /\ Len(f.log) <= 2
        /\ \A i \in 1..Len(f.log) : SameRequest(f.log[i], f)
        /\ First401(f) =>
              /\ f.refreshes = 1
              /\ (f.rt = "true" /\ f.pc # "send") => Len(f.log) = 2
              /\ (f.rt # "true" \/ f.pc = "send") => Len(f.log) = 1

C1_Witness ==
    /\ Depth(1) = 0
    /\ lastDone[1].pc = "returned"
    /\ First401(lastDone[1])
    /\ lastDone[1].rt = "true"
    /\ Len(lastDone[1].log) = 2
    /\ lastDone[1].opts.json = "payload"

\* C2: when the first response is 401 and the refresh step reports failure,
\* the call raises the fatal error, having sent the request once; the
\* operation that made the call ends with that error.
C2_FailedRefreshIsFatal ==
    \A t \in Threads :
        /\ \A f \in Calls(t) :
              f.rt = "false" =>
                 /\ f.pc \in {"raise", "raised"}
                 /\ f.exc = "Fatal"
                 /\ Len(f.log) = 1
                 /\ First401(f)
        /\ (Depth(t) = 0 /\ lastDone[t].rt = "false") =>
              /\ result[t].how = "raised"
              /\ result[t].exc = "Fatal"

C2_Witness ==
    /\ Depth(1) = 0
    /\ lastDone[1].rt = "false"
    /\ lastDone[1].pc = "raised"
    /\ result[1].exc = "Fatal"

\* C3: once the retry has been answered the call returns that response,
\* whatever its status: no second refresh, no third send.
C3_RetryReturnedAsIs ==
    \A t \in Threads :
        /\ \A f \in Calls(t) :
              Len(f.got) = 2 =>
                 /\ f.pc \in {"ret", "returned"}
                 /\ f.resp = f.got[2]
                 /\ f.refreshes = 1
                 /\ Len(f.log) = 2
        /\ (Depth(t) = 0 /\ result[t].op.kind = "request" /\ Len(lastDone[t].got) = 2) =>
              result[t] = Returned(result[t].op, RetResp(lastDone[t].got[2]))

C3_Witness ==
    /\ Depth(1) = 0
    /\ result[1].how = "returned"
    /\ result[1].op.kind = "request"
    /\ Len(lastDone[1].got) = 2
    /\ result[1].val.resp.status = 401

\* C4: when the first response is not 401 the call returns it: one send, no
\* refresh, session headers as they were when the call began.
C4_Non401ReturnedDirectly ==
    \A t \in Threads : \A f \in Calls(t) :
        (Len(f.got) >= 1 /\ f.got[1].status # 401) =>
           /\ f.pc \in {"ret", "returned"}
           /\ f.resp = f.got[1]
           /\ Len(f.log) = 1
           /\ Len(f.got) = 1
           /\ f.refreshes = 0
           /\ f.rt = "none"
           /\ f.pc = "ret" => headers = f.entry
           /\ f.pc = "returned" => f.exit = f.entry

C4_Witness ==
    /\ Depth(1) = 0
    /\ lastDone[1].pc = "returned"
    /\ lastDone[1].got[1].status = 404
    /\ lastDone[1].exit.access = "t1"
    /\ result[1].val.resp.status = 404

\* C5: after a refresh has succeeded, every request put on the wire (the
\* retry, and the requests of later calls) carries the access token of the
\* last successful refresh.
C5_RefreshedTokenAttached ==
    \A t \in Threads :
        (granted # "never" /\ Depth(t) > 0 /\ Top(t).pc = "wait") =>
            Last(Top(t).log).access = Attached(granted)

C5_Witness ==
    /\ granted = "t2"
    /\ Depth(1) = 1
    /\ Top(1).pc = "wait"
    /\ Len(Top(1).log) = 1
    /\ Top(1).entry.access = "t2"
    /\ Top(1).log[1].access = "t2"

\* C6 (as claimed): the refresh step never raises; a failure of the refresh
\* GET makes it report failure.
C6_RefreshNeverRaises ==
    \A t \in Threads : \A f \in Calls(t) : f.rt # "raised"

\* The refresh step of the call on top of the stack has just ended: its
\* self.get(refresh_url), the call lastDone[t], returned a response.
RefreshJustEnded(t) ==
    /\ Depth(t) > 0
    /\ Top(t).refreshes = 1
    /\ Top(t).pc \in {"send", "raise"}
    /\ Len(Top(t).log) = 1
    /\ lastDone[t].pc = "returned"

\* C7: when the refresh GET is answered with a success status, the refresh
\* step has made one GET call to {api_server_url}/auth/refresh, the session
\* header x-openrelik-access-token holds the new_access_token of the
\* response body, and the step reports success.  The GET is on the wire
\* exactly once when its first answer is the success; a first answer of 401
\* is handled inside the GET call like that of any request.
C7_RefreshSuccess ==
    \A t \in Threads :
        (RefreshJustEnded(t) /\ ~RaisesForStatus(lastDone[t].resp)) =>
            /\ lastDone[t].method = "GET"
            /\ lastDone[t].url = "https://srv/auth/refresh"
            /\ lastDone[t].opts = NoOpts
            /\ ~RaisesForStatus(lastDone[t].got[1]) => Len(lastDone[t].log) = 1
            /\ headers.access = lastDone[t].resp.body.tok
            /\ headers.refresh = Top(t).entry.refresh
            /\ Top(t).rt = "true"
            /\ Top(t).pc = "send"

C7_Witness ==
    /\ RefreshJustEnded(1)
    /\ Len(lastDone[1].log) = 1
    /\ lastDone[1].resp.status = 200
    /\ lastDone[1].resp.body.tok = "t2"
    /\ Top(1).entry.access = "t1"
    /\ Top(1).rt = "true"
    /\ headers.access = "t2"

\* C8: the header x-openrelik-refresh-token is what construction made it, in
\* the session and on every request sent: the api_key if one was given (the
\* code's test is `if api_key`), absent otherwise.
C8_RefreshHeaderFixed ==
    /\ headers.refresh = (IF api_key \in {"None", ""} THEN "absent" ELSE api_key)
    /\ \A t \in Threads : \A f \in Calls(t) : \A i \in 1..Len(f.log) :
          f.log[i].refresh = (IF api_key \in {"None", ""} THEN "absent" ELSE api_key)

C8_Witness ==
    /\ api_key = "key"
    /\ headers.refresh = "key"
    /\ headers.access = "t1"
    /\ Depth(1) = 1
    /\ Len(Top(1).log) = 2
    /\ Top(1).log[2].refresh = "key"

---------------------------------------------------------------------------
(* Properties of the clients *)

ClientKinds == Verbs \cup {"upload_file"} \cup FolderKinds \cup WorkflowKinds

\* The calls of request made by the client operation itself (the refresh
\* GETs are made by the session).
OwnCalls(t) == {f \in Calls(t) : f.url # refresh_url}

\* C9: every HTTP call of a client operation (the verbs of APIClient, the
\* folder check and the chunk POSTs of upload_file, the FoldersAPI and
\* WorkflowsAPI methods) is a call of TokenRefreshSession.request: a first
\* response of 401 starts the refresh step, and the operation gets a
\* response back only from the retry.
C9_EveryCallIntercepted ==
    \A t \in Threads :
        /\ Depth(t) > 0 => op[t].kind \in ClientKinds \cup {"request"}
        /\ op[t].kind \in ClientKinds => Depth(t) > 0
        /\ \A f \in OwnCalls(t) :
              First401(f) =>
                 /\ f.refreshes = 1
                 /\ f.pc \in {"ret", "returned"} =>
                       /\ f.rt = "true"
                       /\ Len(f.log) = 2
                       /\ f.resp = f.got[2]

C9_Witness ==
    /\ op[1].kind = "upload_file"
    /\ op[1].phase = "chunk"
    /\ op[1].resumableChunkNumber = 2
    /\ Depth(1) = 1
    /\ Top(1).method = "POST"
    /\ Top(1).pc = "wait"
    /\ Len(Top(1).log) = 2
    /\ First401(Top(1))

\* An upload_file call of thread t has returned after its chunk loop (not
\* from the folder check).
UploadLoopDone(t) ==
    /\ Depth(t) = 0
    /\ result[t].how = "returned"
    /\ result[t].op.kind = "upload_file"
    /\ result[t].op.phase # "folder"

\* n = ceil(s / c), for s >= 0 and c > 0
IsCeil(n, s, c) == n >= 0 /\ n * c >= s /\ (n > 0 => (n - 1) * c < s)

\* The chunk number of the last chunk request of the upload that has just
\* ended is n.
FinalChunkNumberIs(t, n) ==
    /\ lastDone[t].method = "POST"
    /\ lastDone[t].opts.params.resumableChunkNumber = ToString(n)

ChunkCall(t) == stack[t][1]

InChunkCall(t) ==
    /\ op[t].kind = "upload_file"
    /\ op[t].phase = "chunk"
    /\ Depth(t) > 0

\* C11: the k-th chunk request of an upload carries resumableChunkNumber k
\* (the numbers start at 1 and go up by exactly 1, the request itself and
\* its retry carry the same number), every chunk request carries the same
\* declared resumableTotalChunks and no number exceeds it, and the number
\* of the final chunk request of an upload that ran its loop to the end is
\* the declared total.
C11_ChunkNumbers ==
    \A t \in Threads :
        /\ InChunkCall(t) =>
              LET p == ChunkCall(t).opts.params IN
              /\ op[t].posts >= 1
              /\ p.resumableChunkNumber = ToString(op[t].posts)
              /\ p.resumableTotalChunks = ToString(op[t].resumableTotalChunks)
              /\ op[t].posts <= op[t].resumableTotalChunks
              /\ \A i \in 1..Len(ChunkCall(t).log) :
                    ChunkCall(t).log[i].opts.params = p
        /\ (UploadLoopDone(t) /\ result[t].op.posts > 0) =>
              LET p == lastDone[t].opts.params IN
              /\ p.resumableChunkNumber = ToString(result[t].op.posts)
              /\ p.resumableChunkNumber = p.resumableTotalChunks

C11_Witness ==
    /\ UploadLoopDone(1)
    /\ result[1].op.posts = 3
    /\ lastDone[1].opts.params.resumableChunkNumber = "3"
    /\ lastDone[1].opts.params.resumableTotalChunks = "3"
    /\ Len(lastDone[1].log) = 2

---------------------------------------------------------------------------
(* The upload of the 10,500,000-byte file *)

ExampleSizes == {10500000}

\* upload_file(path, folder_id) for an existing file of 10,500,000 bytes
CallUploadExample(t) ==
    /\ IsIdle(t)
    /\ \E fid \in FolderIds, id \in UploadIds, size \in ExampleSizes :
          StartUpload(t, TRUE, size, fid, id)

NextExample ==
    \E t \in Threads :
        \/ CallUploadExample(t)
        \/ Transmit(t)
        \/ Receive(t)
        \/ TransportError(t)
        \/ Return(t)
        \/ Unwind(t)

SpecExample == Init /\ [][NextExample]_vars

\* The upload of thread t is of the 10,500,000-byte file and has the chunk
\* request numbered k outstanding.
ExampleChunk(t, k) ==
    /\ InChunkCall(t)
    /\ op[t].size = 10500000
    /\ op[t].posts = k

ExampleDone(t) == UploadLoopDone(t) /\ result[t].op.size = 10500000

\* The upload returns 77 when the final chunk request was answered 201
\* with the body {"id": 77}.
ExampleReturns77(t) ==
    (lastDone[t].resp.status = 201 /\ lastDone[t].resp.body.id = PyInt(77))
        => result[t].val = RetInt(PyInt(77))

---------------------------------------------------------------------------
(* upload_file before the chunk loop *)

\* C13: upload_file of a path that does not exist raises FileNotFoundError
\* and makes no session call at all: no call is ever outstanding for a
\* missing file, and when the error is raised no request call has been made
\* (no folder GET, no chunk POST, and so no refresh).
C13_FileNotFoundFirst ==
    \A t \in Threads :
        /\ (op[t].kind = "upload_file" /\ Depth(t) > 0) => op[t].exists
        /\ (result[t].op.kind = "upload_file" /\ ~result[t].op.exists) =>
              /\ result[t].how = "raised"
              /\ result[t].exc = "FileNotFoundError"
              /\ lastDone[t] = NoFrame
              /\ result[t].op.posts = 0
              /\ ~result[t].op.hasResp

C13_Witness ==
    /\ result[1].how = "raised"
    /\ result[1].exc = "FileNotFoundError"
    /\ result[1].op.kind = "upload_file"
    /\ result[1].op.folder_id = PyInt(5)
    /\ lastDone[1] = NoFrame
    /\ headers.access # "absent"

\* The upload_file call of thread t has ended and the last session call it
\* made was the folder check, which returned a response of status 404.
FolderCheckAnswered404(t) ==
    /\ Depth(t) = 0
    /\ result[t].op.kind = "upload_file"
    /\ lastDone[t].method = "GET"
    /\ lastDone[t].url = base_url \o "/folders/" \o PyStr(result[t].op.folder_id)
    /\ lastDone[t].pc = "returned"
    /\ lastDone[t].resp.status = 404

C15_FolderMissingReturnsNone ==
    \A t \in Threads :
        FolderCheckAnswered404(t) =>
            /\ result[t].how = "returned"
            /\ result[t].val = RetNone
            /\ result[t].op.posts = 0

---------------------------------------------------------------------------
(* upload_file after the chunk loop *)

\* The value upload_file owes for a final chunk response r: the id of its
\* body when its status is 201, else -1.
FromFinalChunk(r) ==
    IF r.status = 201 THEN RetInt(r.body.id) ELSE RetInt(PyInt(0 - 1))

\* C16: an upload_file call that returns after its chunk loop returns the
\* id of the body of the last chunk's response when that response has
\* status 201, and -1 in every other case (also when no chunk was sent).
C16_ResultFromLastChunk ==
    \A t \in Threads :
        UploadLoopDone(t) =>
            result[t].val = IF result[t].op.posts > 0
                            THEN FromFinalChunk(lastDone[t].resp)
                            ELSE RetInt(PyInt(0 - 1))

\* The upload of thread t is about to get back the response of a chunk
\* request that is not the last one.
IntermediateChunkReturns(t) ==
    /\ InChunkCall(t)
    /\ Depth(t) = 1
    /\ Top(t).pc = "ret"
    /\ op[t].posts < op[t].resumableTotalChunks

\* C17 (as claimed): whatever status the server answers a chunk POST with,
\* upload_file goes on to send every remaining chunk: an upload never ends
\* with a chunk request that the server answered and that is not the last.
C17_AnyStatusContinues ==
    \A t \in Threads :
        (/\ Depth(t) = 0
         /\ result[t].op.kind = "upload_file"
         /\ result[t].op.posts >= 1
         /\ Len(lastDone[t].got) >= 1) =>
            result[t].op.posts = result[t].op.resumableTotalChunks

\* C17 (amended): a response that a chunk POST call returns to upload_file
\* is not looked at unless it is the last one: whatever the status of the
\* response of a chunk that is not the last, the step that hands it to
\* upload_file sends the next chunk; and an upload that returns after
\* sending chunks returns what the final chunk's response determines.
C17_IntermediateNotValidated ==
    /\ [][\A t \in Threads :
             (IntermediateChunkReturns(t) /\ stack'[t] # stack[t]) =>
                 /\ op'[t].kind = "upload_file"
                 /\ op'[t].posts = op[t].posts + 1
                 /\ op'[t].response = Top(t).resp
                 /\ Len(stack'[t]) = 1
                 /\ stack'[t][1].pc = "send"
                 /\ stack'[t][1].opts.params.resumableChunkNumber
                       = ToString(op[t].posts + 1)]_vars
    /\ [](\A t \in Threads :
             (UploadLoopDone(t) /\ result[t].op.posts > 0) =>
                 result[t].val = FromFinalChunk(lastDone[t].resp))

\* The third chunk is out after the first was answered and the second was
\* answered 500.
C17_Witness ==
    /\ InChunkCall(1)
    /\ op[1].posts = 3
    /\ op[1].response.status = 500
    /\ Top(1).pc = "wait"

\* The request calls of thread t that are chunk POSTs and that have not
\* returned, and the request calls that wait for a response.
ChunkCalls(t) ==
    {i \in 1..Depth(t) : stack[t][i].url = base_url \o "/files/upload"}

InFlight(t) == {i \in 1..Depth(t) : stack[t][i].pc = "wait"}

\* C18: the chunks of an upload go out one after the other.  At most one
\* chunk POST call is open and at most one request of the upload is in
\* flight (sent and not answered), and the step that issues the POST of
\* chunk N+1 is the one in which the POST call of chunk N hands its
\* response, received before, back to upload_file.
C18_ChunksSequential ==
    /\ [](\A t \in Threads :
             op[t].kind = "upload_file" =>
                /\ Cardinality(ChunkCalls(t)) <= 1
                /\ Cardinality(InFlight(t)) <= 1
                /\ \A i \in 1..Depth(t) :
                      Len(stack[t][i].log) - Len(stack[t][i].got)
                         \in (IF i \in InFlight(t) THEN {1} ELSE {0, 1})
                /\ \A i \in InFlight(t) : i = Depth(t))
    /\ [][\A t \in Threads :
             (op[t].kind = "upload_file" /\ op[t].posts >= 1
                 /\ op'[t].posts # op[t].posts /\ op'[t].kind = "upload_file") =>
                /\ op'[t].posts = op[t].posts + 1
                /\ Depth(t) = 1
                /\ Top(t).pc = "ret"
                /\ Top(t).opts.params.resumableChunkNumber = ToString(op[t].posts)
                /\ Len(Top(t).got) >= 1
                /\ Top(t).resp = Last(Top(t).got)
                /\ op'[t].response = Top(t).resp]_vars

\* Chunk 2 is in flight, alone, after chunk 1 was answered.
C18_Witness ==
    /\ InChunkCall(1)
    /\ op[1].posts = 2
    /\ op[1].resumableTotalChunks = 3
    /\ op[1].hasResp
    /\ InFlight(1) = {1}
    /\ ChunkCalls(1) = {1}

---------------------------------------------------------------------------
(* Two threads on one session *)

\* One TokenRefreshSession, built with an API key, used by both threads.
InitShared ==
    /\ api_key = "key"
    /\ headers = SessionInit(api_key)
    /\ threads = {1, 2}
    /\ op = [t \in Threads |-> Idle]
    /\ stack = [t \in Threads |-> <<>>]
    /\ lastDone = [t \in Threads |-> NoFrame]
    /\ result = [t \in Threads |-> NoResult]
    /\ granted = "never"

\* The first call of a thread on the session: session.get(url).
CallOnce(t) ==
    /\ IsIdle(t)
    /\ result[t] = NoResult
    /\ Begin(t, [Idle EXCEPT !.kind = "request"],
             SessionVerb("GET", api_server_url \o "/some/endpoint", NoOpts))

\* Each thread calls session.request once; the steps of the two calls
\* interleave freely (no lock in TokenRefreshSession).
NextShared ==
    \E t \in Threads :
        \/ CallOnce(t)
        \/ Transmit(t)
        \/ Receive(t)
        \/ TransportError(t)
        \/ Return(t)
        \/ Unwind(t)

SpecShared == InitShared /\ [][NextShared]_vars

\* The step sends the retry of the call thread t is in.
RetrySent(t) ==
    /\ Depth(t) > 0
    /\ Top(t).pc = "send"
    /\ Len(Top(t).log) = 1
    /\ Len(stack'[t]) = Depth(t)
    /\ Len(stack'[t][Depth(t)].log) = 2

\* The step is the end of a successful refresh of thread t, which obtained
\* the token tok.
RefreshEnds(t, tok) ==
    /\ Depth(t) > 1
    /\ Top(t).pc = "ret"
    /\ Top(t).url = refresh_url
    /\ Top(t).resp.body.tok = tok
    /\ lastDone'[t] # lastDone[t]
    /\ stack'[t][Depth(t) - 1].rt = "true"

\* C19: with two threads on one session, no refresh excludes another, and
\* the last writer wins: the access header changes only at the end of a
\* successful refresh of some thread, to the token that refresh obtained,
\* so that it always holds the token of the refresh that ended last; and a
\* retry carries the token the header holds when the retry is sent, the
\* one written last by whichever thread, not necessarily the one the
\* retrying call's own refresh obtained.
C19_LastWriterWins ==
    /\ [](granted # "never" => headers.access = granted)
    /\ [][headers'.access # headers.access =>
             \E t \in threads : RefreshEnds(t, headers'.access)]_vars
    /\ [][\A t \in threads :
             RetrySent(t) =>
                 Last(stack'[t][Depth(t)].log).access = Attached(headers.access)]_vars

\* Both threads got a 401 and refreshed, the refreshes overlapping: the one
\* of thread 2 began before thread 1 stored its token t1 and ended after,
\* storing t2; the retry of thread 1, whose own refresh obtained t1, is in
\* flight carrying t2.
C19_Witness ==
    /\ Depth(1) = 1
    /\ Top(1).pc = "wait"
    /\ Len(Top(1).log) = 2
    /\ Top(1).log[2].access = "t2"
    /\ lastDone[1].url = refresh_url
    /\ lastDone[1].resp.body.tok = "t1"
    /\ lastDone[2].url = refresh_url
    /\ lastDone[2].entry.access = "absent"
    /\ lastDone[2].exit.access = "t1"
    /\ lastDone[2].resp.body.tok = "t2"
    /\ headers.access = "t2"

---------------------------------------------------------------------------
(* FoldersAPI.folder_exists *)

\* A folder_exists call of thread t has ended.
FolderExistsEnded(t) ==
    /\ Depth(t) = 0
    /\ result[t].op.kind = "folder_exists"
    /\ result[t].how # "none"

---------------------------------------------------------------------------
(* FoldersAPI.create_root_folder, create_subfolder *)

\* A call of the method `kind` by thread t has ended, and its one session
\* call handed a response back to it.
Answered(t, kind) ==
    /\ Depth(t) = 0
    /\ result[t].op.kind = kind
    /\ result[t].how # "none"
    /\ lastDone[t].pc = "returned"

\* The one session call of the method thread t is in, or has just ended.
TheCall(t) == IF Depth(t) > 0 THEN stack[t][1] ELSE lastDone[t]

C22_CreateFolderFailureReturnsNone ==
    \A t \in Threads :
        \A kind \in {"create_root_folder", "create_subfolder"} :
            (Answered(t, kind) /\ lastDone[t].resp.status # 201) =>
                /\ result[t].how = "returned"
                /\ result[t].val = RetNone

\* C23: create_subfolder makes one session POST of
\* {base_url}/folders/{folder_id}/folders/ (trailing slash) with the
\* display name as JSON, and returns the id of the body on a 201.
C23_CreateSubfolderTrailingSlash ==
    \A t \in Threads :
        /\ (op[t].kind = "create_subfolder"
               \/ (Depth(t) = 0 /\ result[t].op.kind = "create_subfolder")) =>
              /\ TheCall(t).method = "POST"
              /\ TheCall(t).url
                    = base_url \o "/folders/" \o PyStr(FolderArg) \o "/folders/"
              /\ TheCall(t).opts.json = "display_name"
        /\ (Answered(t, "create_subfolder") /\ lastDone[t].resp.status = 201) =>
              /\ result[t].how = "returned"
              /\ result[t].val = RetInt(lastDone[t].resp.body.id)

---------------------------------------------------------------------------
(* WorkflowsAPI *)

\* C24: get_workflow, update_workflow, delete_workflow and run_workflow
\* raise whenever the response has a status other than the one the method
\* expects (200, 200, 204, 200).
C24_WorkflowMethodsRaise ==
    \A t \in Threads :
        \A kind \in {"get_workflow", "update_workflow",
                     "delete_workflow", "run_workflow"} :
            (Answered(t, kind)
                /\ lastDone[t].resp.status # (IF kind = "delete_workflow" THEN 204 ELSE 200)) =>
                result[t].how = "raised"

\* C25: create_workflow makes one session POST of
\* {base_url}/folders/{folder_id}/workflows with folder_id, file_ids and
\* template_id as JSON; it returns the id of the body exactly when the
\* response has status 200, and raises RuntimeError for every other status,
\* 201 included.
C25_CreateWorkflow ==
    \A t \in Threads :
        /\ (op[t].kind = "create_workflow"
               \/ (Depth(t) = 0 /\ result[t].op.kind = "create_workflow")) =>
              /\ TheCall(t).method = "POST"
              /\ TheCall(t).url
                    = base_url \o "/folders/" \o PyStr(FolderArg) \o "/workflows"
              /\ TheCall(t).opts.json = "folder_id,file_ids,template_id"
        /\ Answered(t, "create_workflow") =>
              IF lastDone[t].resp.status = 200
              THEN /\ result[t].how = "returned"
                   /\ result[t].val = RetInt(lastDone[t].resp.body.id)
              ELSE /\ result[t].how = "raised"
                   /\ result[t].exc = "RuntimeError"

\* create_workflow raised on a 201 whose body carries an id.
C25_Witness ==
    /\ Answered(1, "create_workflow")
    /\ lastDone[1].resp.status = 201
    /\ lastDone[1].resp.body.id = PyInt(77)
    /\ result[1].how = "raised"
    /\ result[1].exc = "RuntimeError"

---------------------------------------------------------------------------
(* APIClient.get / post / put / patch / delete *)

\* C26: the base path is {server_url}/api/{version}, with "v1" when no
\* version is given, and APIClient.get / post / put / patch / delete make
\* exactly one session call each: of the same verb, of the URL base path +
\* endpoint, with the caller's options as they were given; the response of
\* that call is what the method returns.
C26_VerbsPassThrough ==
    /\ base_url = api_server_url \o "/api/v1"
    /\ BaseUrl("https://api.example.com", "v2") = "https://api.example.com/api/v2"
    /\ \A t \in Threads :
          /\ op[t].kind \in Verbs =>
                /\ Depth(t) >= 1
                /\ stack[t][1].method = op[t].kind
                /\ stack[t][1].url = api_server_url \o "/api/v1" \o op[t].endpoint
                /\ stack[t][1].opts = op[t].kwargs
                /\ lastDone[t] # NoFrame => lastDone[t].url = refresh_url
          /\ (Depth(t) = 0 /\ result[t].op.kind \in Verbs) =>
                /\ lastDone[t].method = result[t].op.kind
                /\ lastDone[t].url
                      = api_server_url \o "/api/v1" \o result[t].op.endpoint
                /\ lastDone[t].opts = result[t].op.kwargs
                /\ lastDone[t].pc = "returned" =>
                      /\ result[t].how = "returned"
                      /\ result[t].val = RetResp(lastDone[t].resp)

\* client.patch("/users/me/", json=...) returned the response of its one
\* session call.
C26_Witness ==
    /\ Depth(1) = 0
    /\ result[1].op.kind = "PATCH"
    /\ result[1].op.kwargs.json = "payload"
    /\ lastDone[1].method = "PATCH"
    /\ lastDone[1].opts.json = "payload"
    /\ lastDone[1].url = "https://srv/api/v1/users/me/"
    /\ result[1].val = RetResp(lastDone[1].resp)

---------------------------------------------------------------------------
(* One call of request as a whole *)

\* The requests put on the wire for the refresh endpoint by the request
\* calls that are open below one outermost call of thread t: pairs of a
\* call and the position of the request in its log.
RefreshContacts(t) ==
    {c \in (1..Depth(t)) \X (1..2) :
        /\ stack[t][c[1]].url = refresh_url
        /\ c[2] <= Len(stack[t][c[1]].log)}

\* C27: one outermost call of request contacts the refresh endpoint at most
\* once and sends the original request at most twice, also when the
\* refresh endpoint answers 401.
C27_OneRefreshPerCall ==
    \A t \in Threads :
        Depth(t) > 0 =>
            /\ Len(stack[t][1].log) <= 2
            /\ Cardinality(RefreshContacts(t)) <= 1

---------------------------------------------------------------------------
(* upload_file: the result and the folder check *)

\* An upload_file call of thread t has returned.
UploadReturned(t) ==
    /\ Depth(t) = 0
    /\ result[t].op.kind = "upload_file"
    /\ result[t].how = "returned"

\* C28: upload_file returns something else than -1 only when it has sent
\* at least one chunk POST and the response to the last one had status
\* 201; for an empty file it returns -1 whatever the folder check returned.
C28_NonSentinelOnlyAfterChunk201 ==
    \A t \in Threads :
        (UploadReturned(t) /\ result[t].val # RetInt(PyInt(0 - 1))) =>
            /\ result[t].op.posts >= 1
            /\ lastDone[t].method = "POST"
            /\ lastDone[t].resp.status = 201

\* The upload of thread t is about to get back the response of its folder
\* check.
FolderCheckReturns(t) ==
    /\ op[t].kind = "upload_file"
    /\ op[t].phase = "folder"
    /\ Depth(t) = 1
    /\ Top(t).pc = "ret"

\* C29 (as claimed): only a 404 of the folder check stops an upload: an
\* upload of a file with content never ends with the folder check as its
\* last session call when the service answered that check and the answer
\* handed back was not a 404.
C29_OnlyStatus404Aborts ==
    \A t \in Threads :
        (/\ Depth(t) = 0
         /\ result[t].op.kind = "upload_file"
         /\ result[t].op.size > 0
         /\ lastDone[t].method = "GET"
         /\ lastDone[t].url = base_url \o "/folders/" \o PyStr(result[t].op.folder_id)
         /\ Len(lastDone[t].got) >= 1) =>
            /\ lastDone[t].pc = "returned"
            /\ lastDone[t].resp.status = 404

\* C29 (amended): of the responses that the folder check hands back, only
\* a 404 ends the upload (with -1 and no chunk sent); for every other
\* status the chunk loop is entered: the first chunk is posted, or, for an
\* empty file, upload_file returns with no chunk sent; and an upload that
\* returns from the chunk loop has sent all its chunks.
C29_FolderCheckOnly404 ==
    /\ [][\A t \in Threads :
             (FolderCheckReturns(t) /\ stack'[t] # stack[t]) =>
                 IF Top(t).resp.status = 404
                 THEN /\ result'[t].how = "returned"
                      /\ result'[t].val = RetInt(PyInt(0 - 1))
                      /\ result'[t].op.posts = 0
                 ELSE IF op[t].size > 0
                 THEN /\ op'[t].kind = "upload_file"
                      /\ op'[t].posts = 1
                      /\ Len(stack'[t]) = 1
                      /\ stack'[t][1].method = "POST"
                      /\ stack'[t][1].opts.params.resumableChunkNumber = "1"
                 ELSE /\ result'[t].how = "returned"
                      /\ result'[t].op.posts = 0]_vars
    /\ [](\A t \in Threads :
             UploadLoopDone(t) =>
                 result[t].op.posts = result[t].op.resumableTotalChunks)

\* The first of three chunks is in flight after a folder check answered 500.
C29_Witness ==
    /\ InChunkCall(1)
    /\ op[1].posts = 1
    /\ op[1].resumableTotalChunks = 3
    /\ op[1].response.status = 500
    /\ Top(1).pc = "wait"

\* A folder identifier is supplied: the argument is neither None nor 0.
Supplied(v) == v # None /\ v # PyInt(0)

\* C30: upload_file makes the folder GET, once and before the first chunk,
\* exactly when folder_id is truthy; with folder_id None or 0 it makes no
\* GET and starts with the chunk POSTs.
C30_FolderGetIffSupplied ==
    \A t \in Threads :
        /\ (op[t].kind = "upload_file" /\ op[t].phase = "folder") =>
              /\ Supplied(op[t].folder_id)
              /\ op[t].posts = 0
              /\ ~op[t].hasResp
              /\ stack[t][1].method = "GET"
              /\ stack[t][1].url = base_url \o "/folders/" \o PyStr(op[t].folder_id)
              /\ lastDone[t] # NoFrame => lastDone[t].url = refresh_url
        /\ InChunkCall(t) =>
              /\ stack[t][1].method = "POST"
              /\ op[t].posts = 1 => (op[t].hasResp <=> Supplied(op[t].folder_id))
              /\ (op[t].posts = 1 /\ Supplied(op[t].folder_id)) =>
                    ~FolderMissing(op[t].response)
        /\ (op[t].kind = "upload_file" /\ ~Supplied(op[t].folder_id)) =>
              /\ \A i \in 1..Depth(t) :
                    stack[t][i].method = "GET" => stack[t][i].url = refresh_url
              /\ (lastDone[t] # NoFrame /\ lastDone[t].method = "GET") =>
                    lastDone[t].url = refresh_url

\* upload_file(path, 0): the first chunk is in flight and no call was made
\* before it.
C30_Witness ==
    /\ InChunkCall(1)
    /\ op[1].folder_id = PyInt(0)
    /\ op[1].posts = 1
    /\ ~op[1].hasResp
    /\ lastDone[1] = NoFrame
    /\ Top(1).pc = "wait"
    /\ Top(1).opts.params.folder_id = "0"

---------------------------------------------------------------------------
(* upload_file: the chunk requests of one upload *)

\* The parameters of a chunk request that belong to the upload as a whole.
UploadParams(p) ==
    [resumableIdentifier  |-> p.resumableIdentifier,
     resumableFilename    |-> p.resumableFilename,
     folder_id            |-> p.folder_id,
     resumableTotalChunks |-> p.resumableTotalChunks]

---------------------------------------------------------------------------
(* upload_file and the 401 of a chunk or of the folder check *)

\* The call f got a 401 first and its refresh succeeded.
Refreshed401(f) == First401(f) /\ f.rt = "true"

\* C32: when a chunk POST is answered 401 and the refresh succeeds, the
\* same chunk is sent again, once: the retry has the method, URL, bytes and
\* parameters (chunk number included) of the first request, no third
\* request is made for the chunk, and the next chunk, numbered one higher,
\* is posted only after the retry has been answered (a retry lost to a
\* transport error ends the upload); the service sees the chunk number
\* twice, then the next one.
C32_ChunkResentOnce ==
    /\ [](\A t \in Threads :
             (InChunkCall(t) /\ Refreshed401(ChunkCall(t))) =>
                LET f == ChunkCall(t) IN
                /\ Len(f.log) <= 2
                /\ f.pc \in {"send", "wait", "ret", "raise"}
                /\ f.pc = "send" => Len(f.log) = 1
                /\ f.pc = "raise" => (Len(f.log) = 2 /\ f.exc = "RequestException")
                /\ Len(f.log) = 2 =>
                      /\ f.log[2].method = f.log[1].method
                      /\ f.log[2].url = f.log[1].url
                      /\ f.log[2].opts = f.log[1].opts
                      /\ f.log[2].opts.params.resumableChunkNumber
                            = ToString(op[t].posts)
                /\ f.pc = "ret" => (Len(f.log) = 2 /\ Len(f.got) = 2))
    /\ [][\A t \in Threads :
             (InChunkCall(t) /\ Refreshed401(ChunkCall(t))
                 /\ op'[t].posts # op[t].posts /\ op'[t].kind = "upload_file") =>
                 /\ Len(ChunkCall(t).log) = 2
                 /\ Len(ChunkCall(t).got) = 2
                 /\ op'[t].posts = op[t].posts + 1
                 /\ stack'[t][1].opts.params.resumableChunkNumber
                       = ToString(op[t].posts + 1)
                 /\ Len(stack'[t][1].log) = 0]_vars

\* Chunk 2 of 3 was answered 401, the refresh gave t1, and the retry of
\* chunk 2 is in flight with the new token.
C32_Witness ==
    /\ InChunkCall(1)
    /\ op[1].posts = 2
    /\ op[1].resumableTotalChunks = 3
    /\ Depth(1) = 1
    /\ Refreshed401(Top(1))
    /\ Top(1).pc = "wait"
    /\ Len(Top(1).log) = 2
    /\ Top(1).log[2].opts.params.resumableChunkNumber = "2"
    /\ Top(1).log[2].access = "t1"

\* The call f got a 401 first and its refresh failed: _refresh_token
\* returned False, or let the error of a nested call through.
RefreshFailed401(f) == First401(f) /\ f.rt \in {"false", "raised"}

\* C33: when the folder check or a chunk POST of an upload is answered 401
\* and the refresh fails, upload_file ends by raising the fatal error
\* "Token refresh failed", not by returning: the call that got the 401 is
\* not sent again and raises, it is the last session call of the upload,
\* and the chunks posted are those up to it.
C33_FailedRefreshAbortsUpload ==
    \A t \in Threads :
        /\ (op[t].kind = "upload_file" /\ Depth(t) >= 1
               /\ RefreshFailed401(stack[t][1])) =>
              /\ Depth(t) = 1
              /\ Top(t).pc = "raise"
              /\ Top(t).exc = "Fatal"
              /\ Len(Top(t).log) = 1
        /\ (Depth(t) = 0 /\ result[t].op.kind = "upload_file"
               /\ lastDone[t] # NoFrame /\ RefreshFailed401(lastDone[t])) =>
              /\ result[t].how = "raised"
              /\ result[t].exc = "Fatal"
              /\ lastDone[t].pc = "raised"
              /\ Len(lastDone[t].log) = 1
              /\ IF lastDone[t].method = "GET"
                 THEN result[t].op.posts = 0
                 ELSE lastDone[t].opts.params.resumableChunkNumber
                         = ToString(result[t].op.posts)

\* Chunk 2 of 3 was answered 401, the refresh failed, and the upload
\* raised with chunk 3 never posted.
C33_Witness ==
    /\ Depth(1) = 0
    /\ result[1].op.kind = "upload_file"
    /\ result[1].how = "raised"
    /\ result[1].exc = "Fatal"
    /\ result[1].op.posts = 2
    /\ result[1].op.resumableTotalChunks = 3
    /\ lastDone[1].method = "POST"
    /\ lastDone[1].rt = "false"
    /\ lastDone[1].got[1].status = 401

---------------------------------------------------------------------------
(* The headers after a failed refresh *)

\* _refresh_token of the call on top of the stack of thread t has just
\* returned False: its self.get(refresh_url), the call lastDone[t], raised
\* a RequestException or returned a response with an error status.
RefreshReportedFailure(t) ==
    /\ Depth(t) > 0
    /\ Top(t).rt = "false"
    /\ Top(t).pc = "raise"
    /\ lastDone[t].url = refresh_url

\* C34: when _refresh_token reports failure, the access header (present or
\* absent) and the refresh header are what they were when the refresh
\* attempt began.
C34_FailedRefreshKeepsHeaders ==
    \A t \in Threads :
        RefreshReportedFailure(t) =>
            /\ headers.access = lastDone[t].entry.access
            /\ headers.refresh = lastDone[t].entry.refresh

====
